---- MODULE Spec2Model ----
(***************************************************************************)
(* A model of kachi (src/src/kachi): the rule engine that recognises a     *)
(* link-protection URL and recovers the wrapped destination.               *)
(*                                                                         *)
(* Text is modelled as a sequence of one-character strings, so that        *)
(* parsing, decoding and matching are computed character by character.     *)
(* A value returned by the program is a record                             *)
(*    [kind, value, exc]   kind \in {"value", "none", "raise"}             *)
(* "none" is Python's None and "raise" an exception leaving the call.      *)
(***************************************************************************)
EXTENDS Integers, Sequences, FiniteSets, TLC

(***************************************************************************)
(* Text helpers                                                            *)
(***************************************************************************)
S(s) == [i \in 1..Len(s) |-> SubSeq(s, i, i)]

\* Body applied to a value computed once: a local variable of the code
With(value, Body(_)) == Body(value)

Val(v) == [kind |-> "value", value |-> v, exc |-> ""]
None == [kind |-> "none", value |-> <<>>, exc |-> ""]
Raise(e) == [kind |-> "raise", value |-> <<>>, exc |-> e]

\* str.find(c, start): the first index >= start holding c, 0 when absent
\* (indices are 1-based here, Python's -1 is 0)
Find(s, c, start) ==
    LET hits == {i \in start..Len(s) : s[i] = c}
    IN IF hits = {} THEN 0 ELSE CHOOSE i \in hits : \A j \in hits : i <= j

\* str.rfind(c)
RFind(s, c) ==
    LET hits == {i \in 1..Len(s) : s[i] = c}
    IN IF hits = {} THEN 0 ELSE CHOOSE i \in hits : \A j \in hits : i >= j

Contains(s, c) == \E i \in 1..Len(s) : s[i] = c

Slice(s, a, b) == SubSeq(s, a, b)

From(s, a) == SubSeq(s, a, Len(s))

\* str.startswith / str.endswith for a one-character argument
StartsWith(s, c) == Len(s) >= 1 /\ s[1] = c
EndsWith(s, c) == Len(s) >= 1 /\ s[Len(s)] = c

\* s[i:i+Len(lit)] == lit
LitAt(s, i, lit) ==
    /\ i + Len(lit) - 1 <= Len(s)
    /\ \A k \in 1..Len(lit) : s[i + k - 1] = lit[k]

Upper == S("ABCDEFGHIJKLMNOPQRSTUVWXYZ")
LowerAlpha == S("abcdefghijklmnopqrstuvwxyz")

IndexIn(c, table) ==
    LET hits == {i \in 1..Len(table) : table[i] = c}
    IN IF hits = {} THEN 0 ELSE CHOOSE i \in hits : TRUE

\* str.lower() on ASCII text
LowerChar(c) ==
    With(IndexIn(c, Upper), LAMBDA i : IF i = 0 THEN c ELSE LowerAlpha[i])
Lower(s) == [i \in 1..Len(s) |-> LowerChar(s[i])]

IsAlpha(c) == IndexIn(c, Upper) > 0 \/ IndexIn(c, LowerAlpha) > 0

\* value of a hexadecimal digit, -1 for any other character
HexVal(c) ==
    With(IndexIn(c, S("0123456789abcdefABCDEF")), LAMBDA i :
        IF i = 0 THEN -1 ELSE IF i > 16 THEN i - 7 ELSE i - 1)

IsHex(c) == HexVal(c) >= 0

\* the printable ASCII characters, code points 32..95 and 97..126 in order
AsciiLow == S(" !\"#$%&'()*+,-./0123456789:;<=>?@ABCDEFGHIJKLMNOPQRSTUVWXYZ[\\]^_")
AsciiHigh == S("abcdefghijklmnopqrstuvwxyz{|}~")

HexDigitsUpper == S("0123456789ABCDEF")

HexDigit(n) == HexDigitsUpper[(n % 16) + 1]

\* chr(n): printable ASCII and the four white-space controls are the
\* character itself; any other code point is kept as one opaque character
\* named by its number
Chr(n) ==
    IF n >= 32 /\ n <= 95 THEN AsciiLow[n - 31]
    ELSE IF n >= 97 /\ n <= 126 THEN AsciiHigh[n - 96]
    ELSE IF n = 9 THEN "\t"
    ELSE IF n = 10 THEN "\n"
    ELSE IF n = 12 THEN "\f"
    ELSE IF n = 13 THEN "\r"
    ELSE "U+" \o HexDigit(n \div 4096) \o HexDigit(n \div 256)
              \o HexDigit(n \div 16) \o HexDigit(n)

\* ord(c)
Ord(c) ==
    With(IndexIn(c, AsciiLow \o <<"U+0060">> \o AsciiHigh), LAMBDA a :
        IF a > 0 THEN a + 31
        ELSE IF c = "\t" THEN 9
        ELSE IF c = "\n" THEN 10
        ELSE IF c = "\f" THEN 12
        ELSE IF c = "\r" THEN 13
        ELSE With([k \in 3..6 |-> HexVal(SubSeq(c, k, k))], LAMBDA h :
                 h[3] * 4096 + h[4] * 256 + h[5] * 16 + h[6]))

IsAscii(c) == Ord(c) < 128

\* the concatenation of the pieces ps[lo..hi]
RECURSIVE Concat(_, _, _)
Concat(ps, lo, hi) ==
    IF lo > hi THEN <<>>
    ELSE IF lo = hi THEN ps[lo]
    ELSE LET mid == (lo + hi) \div 2
         IN Concat(ps, lo, mid) \o Concat(ps, mid + 1, hi)

\* bytes.decode("utf-8", errors): the text of a byte sequence.  An
\* ill-formed sequence raises UnicodeDecodeError when strict, and otherwise
\* becomes U+FFFD
Utf8Need(b) ==
    IF b < 128 THEN 1
    ELSE IF b >= 194 /\ b <= 223 THEN 2
    ELSE IF b >= 224 /\ b <= 239 THEN 3
    ELSE IF b >= 240 /\ b <= 244 THEN 4
    ELSE 0

\* the range allowed for the byte that follows lead byte b
Utf8SecondLo(b) == IF b = 224 THEN 160 ELSE IF b = 240 THEN 144 ELSE 128
Utf8SecondHi(b) == IF b = 237 THEN 159 ELSE IF b = 244 THEN 143 ELSE 191

\* how many bytes from position i form a well-formed prefix of one character
Utf8Prefix(bs, i) ==
    With({n \in 1..Utf8Need(bs[i]) :
            \A k \in 1..(n - 1) :
                /\ i + k <= Len(bs)
                /\ IF k = 1
                   THEN bs[i + 1] >= Utf8SecondLo(bs[i])
                        /\ bs[i + 1] <= Utf8SecondHi(bs[i])
                   ELSE bs[i + k] >= 128 /\ bs[i + k] <= 191},
         LAMBDA lens :
            IF lens = {} THEN 1 ELSE CHOOSE n \in lens : \A m \in lens : n >= m)

Utf8CodePoint(bs, i, n) ==
    IF n = 1 THEN bs[i]
    ELSE IF n = 2 THEN (bs[i] % 32) * 64 + (bs[i + 1] % 64)
    ELSE IF n = 3
         THEN (bs[i] % 16) * 4096 + (bs[i + 1] % 64) * 64 + (bs[i + 2] % 64)
    ELSE (bs[i] % 8) * 262144 + (bs[i + 1] % 64) * 4096
         + (bs[i + 2] % 64) * 64 + (bs[i + 3] % 64)

\* byte i continues the character begun by an earlier lead byte
Utf8Covered(bs, i) ==
    \E j \in 1..(i - 1) : i - j <= 3 /\ j + Utf8Prefix(bs, j) > i
                          /\ ~(bs[j] >= 128 /\ bs[j] <= 191)

\* byte i begins a well-formed character
Utf8Good(bs, i) ==
    With(Utf8Need(bs[i]), LAMBDA need : need > 0 /\ Utf8Prefix(bs, i) = need)

Indices(s) == [i \in 1..Len(s) |-> i]

\* the character decoded from position i: the text of a well-formed one,
\* <<>> for an ill-formed one
Utf8Char(bs, i) ==
    IF Utf8Good(bs, i) THEN <<Chr(Utf8CodePoint(bs, i, Utf8Need(bs[i])))>>
    ELSE <<>>

Utf8Decode(bs, strict) ==
    With([i \in 1..Len(bs) |-> IF Utf8Covered(bs, i) THEN <<"">> ELSE Utf8Char(bs, i)],
         LAMBDA chars :
            IF strict /\ \E i \in 1..Len(chars) : chars[i] = <<>>
            THEN Raise("UnicodeDecodeError")
            ELSE With(SelectSeq(chars, LAMBDA ch : ch # <<"">>), LAMBDA units :
                     Val([k \in 1..Len(units) |->
                            IF units[k] = <<>> THEN "U+FFFD" ELSE units[k][1]])))

(***************************************************************************)
(* urllib.parse.urlparse, as the program calls it, on text without         *)
(* leading control characters, tabs or newlines and with an ASCII netloc.  *)
(***************************************************************************)
SchemeChars == S("abcdefghijklmnopqrstuvwxyzABCDEFGHIJKLMNOPQRSTUVWXYZ0123456789+-.")

UsesParams ==
    {S(""), S("ftp"), S("hdl"), S("prospero"), S("http"), S("imap"),
     S("https"), S("shttp"), S("rtsp"), S("rtsps"), S("rtspu"), S("sip"),
     S("sips"), S("mms"), S("sftp"), S("tel")}

\* the bracketed hosts the model's inputs use that are valid IPv6 literals
ValidBracketedHosts == {S("::1")}

\* the scheme split: <<scheme, rest>>
SplitScheme(url) ==
    With(Find(url, ":", 1), LAMBDA i :
        IF /\ i > 1
           /\ IsAlpha(url[1])
           /\ \A k \in 1..(i - 1) : IndexIn(url[k], SchemeChars) > 0
        THEN <<Lower(Slice(url, 1, i - 1)), From(url, i + 1)>>
        ELSE <<S(""), url>>)

\* _splitnetloc(url, 2): <<netloc, rest>>
SplitNetloc(url) ==
    With({Find(url, c, 3) : c \in {"/", "?", "#"}} \ {0}, LAMBDA cands :
    With(IF cands = {} THEN Len(url) + 1
         ELSE CHOOSE d \in cands : \A e \in cands : d <= e, LAMBDA delim :
        <<Slice(url, 3, delim - 1), From(url, delim)>>))

\* str.split(c, 1) when c occurs: <<before, after>>
SplitOnce(s, c) ==
    With(Find(s, c, 1), LAMBDA i : <<Slice(s, 1, i - 1), From(s, i + 1)>>)

\* _splitparams(url): <<path, params>>
SplitParams(url) ==
    With(Find(url, ";", RFind(url, "/") + 1), LAMBDA i :
        IF i = 0 THEN <<url, S("")>>
        ELSE <<Slice(url, 1, i - 1), From(url, i + 1)>>)

\* the brackets of a netloc are balanced and hold an address
NetlocError(netloc) ==
    IF Contains(netloc, "[") # Contains(netloc, "]") THEN "ValueError"
    ELSE IF Contains(netloc, "[")
         THEN With(From(netloc, Find(netloc, "[", 1) + 1), LAMBDA after :
                 IF Slice(after, 1, Find(after, "]", 1) - 1) \in ValidBracketedHosts
                 THEN "" ELSE "ValueError")
    ELSE ""

\* urlparse(url): a ParseResult as the value, or the ValueError it raises
\* (a netloc is read, and its brackets checked, only after "//"; without
\* it the netloc is empty and has no bracket)
Urlparse(url) ==
    With(SplitScheme(url), LAMBDA ss :
    With(IF LitAt(ss[2], 1, S("//")) THEN SplitNetloc(ss[2])
         ELSE <<S(""), ss[2]>>, LAMBDA nl :
    With(NetlocError(nl[1]), LAMBDA err :
    With(IF Contains(nl[2], "#") THEN SplitOnce(nl[2], "#")
         ELSE <<nl[2], S("")>>, LAMBDA fr :
    With(IF Contains(fr[1], "?") THEN SplitOnce(fr[1], "?")
         ELSE <<fr[1], S("")>>, LAMBDA qu :
    With(IF ss[1] \in UsesParams /\ Contains(qu[1], ";")
         THEN SplitParams(qu[1]) ELSE <<qu[1], S("")>>, LAMBDA pa :
        IF err # "" THEN Raise(err)
        ELSE Val([scheme |-> ss[1], netloc |-> nl[1], path |-> pa[1],
                  params |-> pa[2], query |-> qu[2], fragment |-> fr[2]])))))))

\* ParseResult.hostname, with None as the empty text (the program reads it
\* as `parsed.hostname or ""`)
\* the text before the first c, the whole text when c is absent
Before(s, c) == With(Find(s, c, 1), LAMBDA i : IF i > 0 THEN Slice(s, 1, i - 1) ELSE s)

Hostname(parsed) ==
    With(From(parsed.netloc, RFind(parsed.netloc, "@") + 1), LAMBDA hostinfo :
    With(Find(hostinfo, "[", 1), LAMBDA br :
    With(IF br > 0 THEN Before(From(hostinfo, br + 1), "]")
         ELSE Before(hostinfo, ":"), LAMBDA host :
    With(Find(host, "%", 1), LAMBDA pct :
        \* a zone after "%" is not lower-cased
        IF pct > 0 THEN Lower(Slice(host, 1, pct - 1)) \o From(host, pct)
        ELSE Lower(host)))))

(***************************************************************************)
(* Regular expressions (Python's re) as syntax trees, matched by           *)
(* backtracking in re's priority order.  A tree node is a record with a    *)
(* tag t:  lit (literal text), any (.), notin (a negated class), cat,      *)
(* rep (star, plus and their lazy forms), group (a capture group), bol,    *)
(* eol.                                                                    *)
(* Only the first capture group is read by the program, so only the first  *)
(* is recorded.                                                            *)
(***************************************************************************)
ReLit(s) == [t |-> "lit", s |-> S(s)]
ReAny == [t |-> "any"]
ReNotIn(s) == [t |-> "notin", s |-> S(s)]
ReCat(parts) == [t |-> "cat", parts |-> parts]
ReRep(a, min, greedy) == [t |-> "rep", a |-> a, min |-> min, greedy |-> greedy]
ReGroup(a) == [t |-> "group", a |-> a]
ReBol == [t |-> "bol"]
ReEol == [t |-> "eol"]

\* the pattern texts the model's rule definitions use, with their trees; any
\* other text the definitions hold is one that re.compile rejects
PatternTable ==
    <<[src |-> S(".*\\.proofpoint\\.com"),
       re |-> ReCat(<<ReRep(ReAny, 0, TRUE), ReLit(".proofpoint.com")>>)],
      [src |-> S("\\.x$"),
       re |-> ReCat(<<ReLit(".x"), ReEol>>)],
      [src |-> S("^/v2/"),
       re |-> ReCat(<<ReBol, ReLit("/v2/")>>)],
      [src |-> S("/v2/"),
       re |-> ReLit("/v2/")],
      [src |-> S("/L0/(.+)"),
       re |-> ReCat(<<ReLit("/L0/"), ReGroup(ReRep(ReAny, 1, TRUE))>>)],
      [src |-> S("__(.+?)__;"),
       re |-> ReCat(<<ReLit("__"), ReGroup(ReRep(ReAny, 1, FALSE)),
                      ReLit("__;")>>)],
      [src |-> S("u=([^&]+)"),
       re |-> ReCat(<<ReLit("u="), ReGroup(ReRep(ReNotIn("&"), 1, TRUE))>>)]>>

\* re.compile(pattern): the tree, or re.error
ReCompile(pattern) ==
    With(SelectSeq(PatternTable, LAMBDA e : e.src = pattern), LAMBDA hits :
        IF hits = <<>> THEN Raise("re.error") ELSE Val(hits[1].re))

\* re.Pattern.groups
RECURSIVE ReGroups(_)
RECURSIVE ReGroupsOf(_, _)
ReGroups(r) ==
    CASE r.t = "group" -> 1 + ReGroups(r.a)
      [] r.t = "rep" -> ReGroups(r.a)
      [] r.t = "cat" -> ReGroupsOf(r.parts, 1)
      [] OTHER -> 0
ReGroupsOf(parts, k) ==
    IF k > Len(parts) THEN 0
    ELSE ReGroups(parts[k]) + ReGroupsOf(parts, k + 1)

\* a one-character node accepts the character c
ReAtomOk(a, c) ==
    CASE a.t = "any" -> c # "\n"
      [] a.t = "notin" -> ~Contains(a.s, c)

\* the number of consecutive characters from position i that node a accepts
ReRun(a, s, i) ==
    With({n \in 0..(Len(s) - i + 1) :
            \A k \in 0..(n - 1) : ReAtomOk(a, s[i + k])}, LAMBDA ok :
        CHOOSE n \in ok : \A m \in ok : n >= m)

\* every way r matches s starting at position i, best first: a sequence of
\* [e |-> position after the match, cap |-> <<first, last+1>> of group 1].
\* A repetition is of a one-character node; a cat is the whole pattern and
\* yields its best match only.
RECURSIVE ReMatch(_, _, _, _)
RECURSIVE ReMatchCat(_, _, _, _, _)
ReMatch(r, s, i, cap) ==
    CASE r.t = "lit" ->
           IF LitAt(s, i, r.s) THEN <<[e |-> i + Len(r.s), cap |-> cap]>>
           ELSE <<>>
      [] r.t \in {"any", "notin"} ->
           IF i <= Len(s) /\ ReAtomOk(r, s[i])
           THEN <<[e |-> i + 1, cap |-> cap]>> ELSE <<>>
      [] r.t = "bol" -> IF i = 1 THEN <<[e |-> i, cap |-> cap]>> ELSE <<>>
      [] r.t = "eol" ->
           IF i = Len(s) + 1 \/ (i = Len(s) /\ s[i] = "\n")
           THEN <<[e |-> i, cap |-> cap]>> ELSE <<>>
      [] r.t = "rep" ->
           With(ReRun(r.a, s, i), LAMBDA run :
               IF run < r.min THEN <<>>
               ELSE [j \in 1..(run - r.min + 1) |->
                       [e |-> IF r.greedy THEN i + run - (j - 1)
                              ELSE i + r.min + (j - 1),
                        cap |-> cap]])
      [] r.t = "group" ->
           With(ReMatch(r.a, s, i, cap), LAMBDA ms :
               [k \in 1..Len(ms) |->
                  [e |-> ms[k].e,
                   cap |-> IF cap = <<>> THEN <<i, ms[k].e>> ELSE ms[k].cap]])
      [] r.t = "cat" -> ReMatchCat(r.parts, 1, s, i, cap)
ReMatchCat(parts, k, s, i, cap) ==
    IF k > Len(parts) THEN <<[e |-> i, cap |-> cap]>>
    ELSE With(ReMatch(parts[k], s, i, cap), LAMBDA ms :
         With(SelectSeq([j \in 1..Len(ms) |->
                           ReMatchCat(parts, k + 1, s, ms[j].e, ms[j].cap)],
                        LAMBDA rest : rest # <<>>), LAMBDA good :
             IF good = <<>> THEN <<>> ELSE good[1]))

\* re.Pattern.search(s): the leftmost match, [found, cap]
ReSearch(r, s) ==
    With(SelectSeq([i \in 1..(Len(s) + 1) |-> ReMatch(r, s, i, <<>>)],
                   LAMBDA ms : ms # <<>>), LAMBDA found :
        IF found = <<>> THEN [found |-> FALSE, cap |-> <<>>]
        ELSE [found |-> TRUE, cap |-> found[1][1].cap])

\* m.group(1) of a match: the captured text, None when the group took no part
ReGroup1(m, s) ==
    IF m.cap = <<>> THEN None ELSE Val(Slice(s, m.cap[1], m.cap[2] - 1))

(***************************************************************************)
(* Matcher                                                                 *)
(***************************************************************************)
NoPattern == [t |-> "none"]

\* Matcher.__post_init__: the Matcher built from a raw text, or ValueError
MatcherInit(raw) ==
    With(Len(raw) >= 2 /\ StartsWith(raw, "/") /\ EndsWith(raw, "/"),
         LAMBDA is_regex :
    With(IF is_regex THEN Slice(raw, 2, Len(raw) - 1) ELSE raw, LAMBDA pattern :
    With(IF is_regex THEN ReCompile(pattern) ELSE Val(NoPattern),
         LAMBDA compiled :
        IF raw = <<>> THEN Raise("ValueError")
        ELSE IF compiled.kind = "raise" THEN Raise("ValueError")
        ELSE Val([raw |-> raw, is_regex |-> is_regex, pattern |-> pattern,
                  compiled |-> compiled.value]))))

\* Matcher.matches
MatcherMatches(m, value) ==
    IF m.compiled.t # "none" THEN ReSearch(m.compiled, value).found
    ELSE value = m.pattern

(***************************************************************************)
(* Filter                                                                  *)
(***************************************************************************)
\* any(m.matches(value) for m in matchers)
AnyMatches(matchers, value) ==
    \E i \in 1..Len(matchers) : MatcherMatches(matchers[i], value)

\* `parsed or urlparse(url)`: a ParseResult is a non-empty tuple, so a given
\* one is always kept
ParsedOr(parsed, url) == IF parsed.kind = "value" THEN parsed ELSE Urlparse(url)

\* a Filter.matches that tests the path Matchers on the path with the query
FilterMatchesWithQuery(f, url, parsed) ==
    With(ParsedOr(parsed, url), LAMBDA p :
        IF p.kind = "raise" THEN p
        ELSE Val(/\ AnyMatches(f.hostname, Hostname(p.value))
                 /\ \/ f.path = <<>>
                    \/ AnyMatches(f.path, p.value.path \o <<"?">> \o p.value.query)))

\* Filter.matches(url, parsed=parsed): a Boolean value, or the exception of
\* urlparse
FilterMatches(f, url, parsed) ==
    With(ParsedOr(parsed, url), LAMBDA p :
        IF p.kind = "raise" THEN p
        ELSE Val(/\ AnyMatches(f.hostname, Hostname(p.value))
                 /\ \/ f.path = <<>>
                    \/ AnyMatches(f.path, p.value.path)))

(***************************************************************************)
(* Transform                                                               *)
(***************************************************************************)
VALID_TRANSFORM_NAMES ==
    {"html_unescape", "url_decode", "base64_decode", "prepend",
     "proofpoint_v2_decode"}
PARAMETERIZED_TRANSFORMS == {"prepend"}

\* Transform.__post_init__
TransformInit(name, value) ==
    IF name \notin VALID_TRANSFORM_NAMES THEN Raise("ValueError")
    ELSE IF name \in PARAMETERIZED_TRANSFORMS /\ value.kind = "none"
         THEN Raise("ValueError")
    ELSE IF name \notin PARAMETERIZED_TRANSFORMS /\ value.kind # "none"
         THEN Raise("ValueError")
    ELSE Val([name |-> name, value |-> value])

\* html.unescape for the character references of HtmlEntities (the inputs
\* of the model hold no other reference); a reference needs no semicolon
HtmlEntities ==
    <<[name |-> S("amp;"), char |-> "&"], [name |-> S("amp"), char |-> "&"],
      [name |-> S("lt;"), char |-> "<"], [name |-> S("lt"), char |-> "<"],
      [name |-> S("gt;"), char |-> ">"], [name |-> S("gt"), char |-> ">"],
      [name |-> S("quot;"), char |-> "\""], [name |-> S("quot"), char |-> "\""]>>

RECURSIVE HtmlUnescapeFrom(_, _)
HtmlUnescapeFrom(s, i) ==
    IF i > Len(s) THEN <<>>
    ELSE With(SelectSeq(HtmlEntities,
                        LAMBDA e : s[i] = "&" /\ LitAt(s, i + 1, e.name)),
              LAMBDA hits :
                 IF hits = <<>> THEN <<s[i]>> \o HtmlUnescapeFrom(s, i + 1)
                 ELSE <<hits[1].char>>
                      \o HtmlUnescapeFrom(s, i + 1 + Len(hits[1].name)))
HtmlUnescape(s) == HtmlUnescapeFrom(s, 1)

\* urllib.parse.unquote_to_bytes on ASCII text: %XX is one byte, any other
\* character its own code
IsEscapeAt(s, i, mark) ==
    i + 2 <= Len(s) /\ s[i] = mark /\ \A k \in {i + 1, i + 2} : IsHex(s[k])

UnquoteToBytes(s) ==
    With([i \in 1..Len(s) |-> IsEscapeAt(s, i, "%")], LAMBDA esc :
    With(SelectSeq(Indices(s),
             LAMBDA i : ~(i > 1 /\ esc[i - 1]) /\ ~(i > 2 /\ esc[i - 2])),
         LAMBDA keep :
            [k \in 1..Len(keep) |->
               IF esc[keep[k]]
               THEN HexVal(s[keep[k] + 1]) * 16 + HexVal(s[keep[k] + 2])
               ELSE Ord(s[keep[k]])]))

\* urllib.parse.unquote: each ASCII stretch is unquoted to bytes and decoded
\* with errors="replace"; a non-ASCII character is kept
RECURSIVE Unquote(_)
Unquote(s) ==
    IF ~Contains(s, "%") THEN s
    ELSE With(SelectSeq(Indices(s), LAMBDA i : ~IsAscii(s[i])), LAMBDA wide :
         With(IF wide = <<>> THEN Len(s) + 1 ELSE wide[1], LAMBDA w :
             Utf8Decode(UnquoteToBytes(Slice(s, 1, w - 1)), FALSE).value
             \o (IF w > Len(s) THEN <<>>
                 ELSE <<s[w]>> \o Unquote(From(s, w + 1)))))

\* base64.b64decode(s) with validate=False, as binascii.a2b_base64 reads it:
\* characters outside the alphabet are skipped, a complete padding ends the
\* input, and input that stops inside a quad is an error
Base64Alphabet ==
    S("ABCDEFGHIJKLMNOPQRSTUVWXYZabcdefghijklmnopqrstuvwxyz0123456789+/")

IsBase64Char(c) == IndexIn(c, Base64Alphabet) > 0

\* the "=" at position i completes the padding of the quad it stands in
Base64PadEnds(s, i) ==
    With({j \in 1..(i - 1) : IsBase64Char(s[j])}, LAMBDA data :
    With(Cardinality(data) % 4, LAMBDA quad_pos :
    With(IF data = {} THEN 0 ELSE CHOOSE j \in data : \A k \in data : j >= k,
         LAMBDA last :
    With(Cardinality({j \in (last + 1)..i : s[j] = "="}), LAMBDA pads :
        s[i] = "=" /\ quad_pos >= 2 /\ quad_pos + pads >= 4))))

\* byte j of the sextets v
Base64Byte(v, j) ==
    LET q == ((j - 1) \div 3) * 4
        r == (j - 1) % 3
    IN IF r = 0 THEN v[q + 1] * 4 + (v[q + 2] \div 16)
       ELSE IF r = 1 THEN (v[q + 2] % 16) * 16 + (v[q + 3] \div 4)
       ELSE (v[q + 3] % 4) * 64 + v[q + 4]

A2bBase64(s) ==
    With(SelectSeq(Indices(s), LAMBDA i : Base64PadEnds(s, i)), LAMBDA ends :
    With(IF ends = <<>> THEN Len(s) ELSE ends[1] - 1, LAMBDA last :
    With(SelectSeq([i \in 1..last |-> IndexIn(s[i], Base64Alphabet) - 1],
                   LAMBDA x : x >= 0), LAMBDA v :
        IF ends = <<>> /\ Len(v) % 4 # 0 THEN Raise("binascii.Error")
        ELSE Val([j \in 1..((Len(v) \div 4) * 3
                            + (IF Len(v) % 4 = 0 THEN 0 ELSE (Len(v) % 4) - 1))
                  |-> Base64Byte(v, j)]))))

\* base64.b64decode(value).decode()
Base64Decode(s) ==
    IF \E i \in 1..Len(s) : ~IsAscii(s[i]) THEN Raise("ValueError")
    ELSE With(A2bBase64(s), LAMBDA bytes :
             IF bytes.kind = "raise" THEN bytes
             ELSE Utf8Decode(bytes.value, TRUE))

\* _PROOFPOINT_V2_RE.sub(lambda m: chr(int(m.group(1), 16)), value): one
\* scan from the left; the text after a replaced match is scanned next, the
\* replacement itself is not
RECURSIVE ProofpointSub(_, _)
ProofpointSub(s, i) ==
    IF i > Len(s) THEN <<>>
    ELSE IF IsEscapeAt(s, i, "-")
         THEN <<Chr(HexVal(s[i + 1]) * 16 + HexVal(s[i + 2]))>>
              \o ProofpointSub(s, i + 3)
    ELSE <<s[i]>> \o ProofpointSub(s, i + 1)

\* str.replace(old, new) for one-character texts
ReplaceChar(s, old, new) == [i \in 1..Len(s) |-> IF s[i] = old THEN new ELSE s[i]]

\* a decoding that turns the underscores into slashes before the escapes
ProofpointV2DecodeUnderscoreFirst(s) == ProofpointSub(ReplaceChar(s, "_", "/"), 1)

ProofpointV2Decode(s) == ReplaceChar(ProofpointSub(s, 1), "_", "/")

\* Transform.call
TransformCall(t, value) ==
    CASE t.name = "html_unescape" -> Val(HtmlUnescape(value))
      [] t.name = "url_decode" -> Val(Unquote(value))
      [] t.name = "base64_decode" -> Base64Decode(value)
      [] t.name = "prepend" -> Val(t.value.value \o value)
      [] t.name = "proofpoint_v2_decode" -> Val(ProofpointV2Decode(value))
      [] OTHER -> Raise("ValueError")

(***************************************************************************)
(* Extract                                                                 *)
(***************************************************************************)
ExtractSources == {"query_param", "path_regex", "url_regex"}
ParamSelects == {"first", "last"}

\* Extract.__post_init__
ExtractInit(source, keys, pattern, select) ==
    With(IF source = "query_param" THEN Val(NoPattern)
         ELSE ReCompile(pattern.value), LAMBDA compiled :
        IF /\ source = "query_param"
           /\ (keys = <<>> \/ pattern.kind # "none")
        THEN Raise("ValueError")
        ELSE IF /\ source # "query_param"
                /\ (pattern.kind = "none" \/ keys # <<>>)
        THEN Raise("ValueError")
        ELSE IF compiled.kind = "raise" THEN Raise("ValueError")
        ELSE IF source # "query_param" /\ ReGroups(compiled.value) < 1
        THEN Raise("ValueError")
        ELSE Val([source |-> source, keys |-> keys, pattern |-> pattern,
                  select |-> select, compiled |-> compiled.value]))

\* str.split(c): the fields between the occurrences of c
SplitAll(s, c) ==
    With(SelectSeq(Indices(s), LAMBDA i : s[i] = c), LAMBDA seps :
        [k \in 1..(Len(seps) + 1) |->
           Slice(s, IF k = 1 THEN 1 ELSE seps[k - 1] + 1,
                    IF k > Len(seps) THEN Len(s) ELSE seps[k] - 1)])

\* urllib.parse.parse_qsl(query): the <<name, value>> pairs in order of
\* occurrence; a field without "=" or with an empty value is dropped
ParseQsl(query) ==
    With(SelectSeq(IF query = <<>> THEN <<>> ELSE SplitAll(query, "&"),
                   LAMBDA f : Contains(f, "=") /\ Find(f, "=", 1) < Len(f)),
         LAMBDA kept :
            [k \in 1..Len(kept) |->
               With(SplitOnce(ReplaceChar(kept[k], "+", " "), "="), LAMBDA nv :
                   [i \in 1..2 |-> Unquote(nv[i])])])

\* parse_qs(query).get(key, []): the values of key in order of occurrence
QsGet(query, key) ==
    With(SelectSeq(ParseQsl(query), LAMBDA nv : nv[1] = key), LAMBDA pairs :
        [k \in 1..Len(pairs) |-> pairs[k][2]])

\* a loop over the keys that takes the first value whatever select says
RECURSIVE ExtractKeysFirstValue(_, _, _)
ExtractKeysFirstValue(e, query, k) ==
    IF k > Len(e.keys) THEN None
    ELSE With(QsGet(query, e.keys[k]), LAMBDA values :
             IF values # <<>> THEN Val(values[1])
             ELSE ExtractKeysFirstValue(e, query, k + 1))

\* the loop over self.keys of Extract.call
RECURSIVE ExtractKeys(_, _, _)
ExtractKeys(e, query, k) ==
    IF k > Len(e.keys) THEN None
    ELSE With(QsGet(query, e.keys[k]), LAMBDA values :
             IF values # <<>>
             THEN Val(IF e.select = "first" THEN values[1] ELSE values[Len(values)])
             ELSE ExtractKeys(e, query, k + 1))

\* Extract.call(url, parsed=parsed)
ExtractCall(e, url, parsed) ==
    With(ParsedOr(parsed, url), LAMBDA p :
        IF p.kind = "raise" THEN p
        ELSE IF e.source = "query_param" THEN ExtractKeys(e, p.value.query, 1)
        ELSE With(IF e.source = "path_regex" THEN p.value.path ELSE url,
                  LAMBDA text :
             With(ReSearch(e.compiled, text), LAMBDA m :
                 IF m.found THEN ReGroup1(m, text) ELSE None)))

(***************************************************************************)
(* Rule                                                                    *)
(***************************************************************************)
\* the loops `for t in transforms: value = t.call(value)`: the final text
\* or the exception of the first Transform that fails, and the number of
\* Transforms called
RECURSIVE ApplyTransforms(_, _, _)
ApplyTransforms(ts, k, value) ==
    IF k > Len(ts) THEN [res |-> Val(value), n |-> 0]
    ELSE With(TransformCall(ts[k], value), LAMBDA r :
             IF r.kind = "raise" THEN [res |-> r, n |-> 1]
             ELSE With(ApplyTransforms(ts, k + 1, r.value), LAMBDA rest :
                      [res |-> rest.res, n |-> rest.n + 1]))

Event(ev, name) == [ev |-> ev, name |-> name]
TransformEvents(ts, n) == [k \in 1..n |-> Event("transform", ts[k].name)]

\* a Rule.call that hands the caller's parsed form to the Extractor even
\* after the pre-extraction Transforms rewrote the URL
RuleCallStaleParse(rule, url, parsed) ==
    With(ParsedOr(parsed, url), LAMBDA p :
    With(<<Event("filter", rule.name)>>, LAMBDA log1 :
        IF p.kind = "raise" THEN [res |-> p, log |-> <<>>]
        ELSE IF ~FilterMatches(rule.filter, url, p).value
        THEN [res |-> None, log |-> log1]
        ELSE
    With(ApplyTransforms(rule.pre_extract, 1, url), LAMBDA pre :
    With(log1 \o TransformEvents(rule.pre_extract, pre.n), LAMBDA log2 :
        IF pre.res.kind = "raise" THEN [res |-> pre.res, log |-> log2]
        ELSE
    With(ExtractCall(rule.extract, pre.res.value, p), LAMBDA x :
    With(log2 \o <<Event("extract", rule.extract.source)>>, LAMBDA log3 :
        IF x.kind # "value" THEN [res |-> x, log |-> log3]
        ELSE
    With(ApplyTransforms(rule.post_extract, 1, x.value), LAMBDA post :
        [res |-> post.res,
         log |-> log3 \o TransformEvents(rule.post_extract, post.n)])))))))

\* Rule.call(url, parsed=parsed): the result and the components it ran
RuleCall(rule, url, parsed) ==
    With(ParsedOr(parsed, url), LAMBDA p :
    With(<<Event("filter", rule.name)>>, LAMBDA log1 :
        IF p.kind = "raise" THEN [res |-> p, log |-> <<>>]
        ELSE IF ~FilterMatches(rule.filter, url, p).value
        THEN [res |-> None, log |-> log1]
        ELSE
    With(ApplyTransforms(rule.pre_extract, 1, url), LAMBDA pre :
    With(log1 \o TransformEvents(rule.pre_extract, pre.n), LAMBDA log2 :
        IF pre.res.kind = "raise" THEN [res |-> pre.res, log |-> log2]
        ELSE
    With(ExtractCall(rule.extract, pre.res.value,
                     IF rule.pre_extract = <<>> THEN p ELSE None), LAMBDA x :
    With(log2 \o <<Event("extract", rule.extract.source)>>, LAMBDA log3 :
        IF x.kind # "value" THEN [res |-> x, log |-> log3]
        ELSE
    With(ApplyTransforms(rule.post_extract, 1, x.value), LAMBDA post :
        [res |-> post.res,
         log |-> log3 \o TransformEvents(rule.post_extract, post.n)])))))))

\* Rule.__post_init__
RuleInit(name, filter, extract, pre_extract, post_extract) ==
    IF name = "" THEN Raise("ValueError")
    ELSE Val([name |-> name, filter |-> filter, extract |-> extract,
              pre_extract |-> pre_extract, post_extract |-> post_extract])

(***************************************************************************)
(* RuleSet                                                                 *)
(***************************************************************************)
\* a RuleSet.__post_init__ without the check of the names
RuleSetInitNoNameCheck(rules) ==
    IF rules = <<>> THEN Raise("ValueError") ELSE Val(rules)

\* RuleSet.__post_init__
RuleSetInit(rules) ==
    With([i \in 1..Len(rules) |-> rules[i].name], LAMBDA names :
    With({names[i] : i \in {j \in 1..Len(names) :
                               \E k \in 1..Len(names) :
                                   k # j /\ names[k] = names[j]}},
         LAMBDA duplicates :
            IF rules = <<>> THEN Raise("ValueError")
            ELSE IF duplicates # {} THEN Raise("ValueError")
            ELSE Val(rules)))

\* a loop of RuleSet.call in which a later Rule's value replaces an earlier
RECURSIVE RuleSetLoopLastWins(_, _, _, _)
RuleSetLoopLastWins(rules, i, url, parsed) ==
    IF i > Len(rules) THEN [res |-> None, log |-> <<>>]
    ELSE With(RuleCall(rules[i], url, parsed), LAMBDA r :
             IF r.res.kind = "raise" THEN r
             ELSE With(RuleSetLoopLastWins(rules, i + 1, url, parsed), LAMBDA rest :
                      IF rest.res.kind # "none"
                      THEN [res |-> rest.res, log |-> r.log \o rest.log]
                      ELSE [res |-> r.res, log |-> r.log \o rest.log]))

\* the loop of RuleSet.call from rule i on
RECURSIVE RuleSetLoop(_, _, _, _)
RuleSetLoop(rules, i, url, parsed) ==
    IF i > Len(rules) THEN [res |-> None, log |-> <<>>]
    ELSE With(RuleCall(rules[i], url, parsed), LAMBDA r :
             IF r.res.kind # "none" THEN r
             ELSE With(RuleSetLoop(rules, i + 1, url, parsed), LAMBDA rest :
                      [res |-> rest.res, log |-> r.log \o rest.log]))

\* RuleSet.call(url)
RuleSetCall(rules, url) ==
    With(Urlparse(url), LAMBDA parsed :
        IF parsed.kind = "raise" THEN [res |-> parsed, log |-> <<>>]
        ELSE RuleSetLoop(rules, 1, url, parsed))

(***************************************************************************)
(* Construction from definition data.  A mapping is a record whose domain  *)
(* is the keys present; a text value is [str |-> text] and a list value    *)
(* [list |-> sequence], as YAML tells them apart.                          *)
(***************************************************************************)
\* a list comprehension `[f(v) for v in values]` over results: the values,
\* or the exception of the first element that raises
Collect(results) ==
    With(SelectSeq(results, LAMBDA r : r.kind = "raise"), LAMBDA bad :
        IF bad = <<>> THEN Val([i \in 1..Len(results) |-> results[i].value])
        ELSE bad[1])

\* _to_matchers
ToMatchers(value) ==
    With(IF "str" \in DOMAIN value THEN <<value.str>> ELSE value.list, LAMBDA raws :
        Collect([i \in 1..Len(raws) |-> MatcherInit(raws[i])]))

\* Filter.__post_init__
FilterInit(hostname, path) ==
    IF hostname = <<>> THEN Raise("ValueError")
    ELSE Val([hostname |-> hostname, path |-> path])

\* Filter.from_dict
\* the Matchers of data[key], none when the key is absent
MatchersAt(data, key) ==
    IF key \in DOMAIN data THEN ToMatchers(data[key]) ELSE Val(<<>>)

FilterFromDict(data) ==
    IF "hostname" \notin DOMAIN data THEN Raise("KeyError")
    ELSE With([k \in {"hostname", "path"} |-> MatchersAt(data, k)], LAMBDA m :
             IF m.hostname.kind = "raise" THEN m.hostname
             ELSE IF m.path.kind = "raise" THEN m.path
             ELSE FilterInit(m.hostname.value, m.path.value))

\* Transform.from_dict: a bare name, or a one-key mapping {name: value}
TransformFromDict(data) ==
    IF "str" \in DOMAIN data THEN TransformInit(data.str, None)
    ELSE TransformInit(data.key, data.param)

\* Extract.from_dict
ExtractFromDict(data) ==
    IF "from" \notin DOMAIN data THEN Raise("KeyError")
    ELSE IF data.from \notin ExtractSources THEN Raise("ValueError")
    ELSE IF "select" \in DOMAIN data /\ data.select \notin ParamSelects
         THEN Raise("ValueError")
    ELSE ExtractInit(data.from,
                     IF "keys" \in DOMAIN data THEN data.keys ELSE <<>>,
                     IF "pattern" \in DOMAIN data THEN Val(data.pattern) ELSE None,
                     IF "select" \in DOMAIN data THEN data.select ELSE "first")

\* Rule.from_dict
\* [Transform.from_dict(t) for t in data.get(key, [])]
TransformsAt(data, key) ==
    With(IF key \in DOMAIN data THEN data[key] ELSE <<>>, LAMBDA ts :
        Collect([i \in 1..Len(ts) |-> TransformFromDict(ts[i])]))

RuleFromDict(data) ==
    IF {"name", "filter"} \ DOMAIN data # {} THEN Raise("KeyError")
    ELSE
    With(FilterFromDict(data.filter), LAMBDA filter :
        IF filter.kind = "raise" THEN filter
        ELSE IF "extract" \notin DOMAIN data THEN Raise("KeyError")
        ELSE
    With(ExtractFromDict(data.extract), LAMBDA extract :
        IF extract.kind = "raise" THEN extract ELSE
    With([k \in {"pre_extract", "post_extract"} |-> TransformsAt(data, k)],
         LAMBDA ts :
        IF ts.pre_extract.kind = "raise" THEN ts.pre_extract
        ELSE IF ts.post_extract.kind = "raise" THEN ts.post_extract
        ELSE RuleInit(data.name, filter.value, extract.value,
                      ts.pre_extract.value, ts.post_extract.value))))

\* RuleSet.from_dict
RuleSetFromDict(data) ==
    With(Collect([i \in 1..Len(data.rules) |-> RuleFromDict(data.rules[i])]),
         LAMBDA rules :
            IF rules.kind = "raise" THEN rules ELSE RuleSetInit(rules.value))

(***************************************************************************)
(* The public entry points (main.py), called with a rule_set               *)
(***************************************************************************)
\* unsafe_link(url, rule_set=rule_set)
UnsafeLink(url, rule_set) == RuleSetCall(rule_set, url)

\* the filters that any(...) of is_protected_link evaluates: up to and
\* including the first that matches
RECURSIVE AnyFilter(_, _, _, _)
AnyFilter(rules, i, url, parsed) ==
    IF i > Len(rules) THEN [res |-> Val(FALSE), log |-> <<>>]
    ELSE With(<<Event("filter", rules[i].name)>>, LAMBDA log1 :
             IF FilterMatches(rules[i].filter, url, parsed).value
             THEN [res |-> Val(TRUE), log |-> log1]
             ELSE With(AnyFilter(rules, i + 1, url, parsed), LAMBDA rest :
                      [res |-> rest.res, log |-> log1 \o rest.log]))

\* an is_protected_link that unwraps the URL to decide
IsProtectedLinkByEvaluation(url, rule_set) ==
    With(RuleSetCall(rule_set, url), LAMBDA r :
        IF r.res.kind = "raise" THEN r
        ELSE [res |-> Val(r.res.kind = "value"), log |-> r.log])

\* is_protected_link(url, rule_set=rule_set)
IsProtectedLink(url, rule_set) ==
    With(Urlparse(url), LAMBDA parsed :
        IF parsed.kind = "raise" THEN [res |-> parsed, log |-> <<>>]
        ELSE AnyFilter(rule_set, 1, url, parsed))

(***************************************************************************)
(* The inputs of the model: rule definitions, URLs and texts               *)
(***************************************************************************)
MaxRules == 2

QueryParam(keys) == [from |-> "query_param", keys |-> keys]
Host(raw) == [hostname |-> [str |-> S(raw)]]

D_b64 ==
    [name |-> "b64", filter |-> Host("h.x"),
     extract |-> QueryParam(<<S("u")>>),
     post_extract |-> <<[str |-> "base64_decode"]>>]
D_last ==
    [name |-> "last", filter |-> [hostname |-> [list |-> <<S("/\\.x$/")>>]],
     extract |-> [from |-> "query_param", keys |-> <<S("u"), S("t")>>,
                  select |-> "last"],
     post_extract |-> <<[str |-> "url_decode"]>>]
D_first ==
    [name |-> "first", filter |-> Host("/\\.x$/"),
     extract |-> [from |-> "query_param", keys |-> <<S("t")>>,
                  select |-> "first"]]
D_path ==
    [name |-> "path",
     filter |-> [hostname |-> [str |-> S("h.x")], path |-> [str |-> S("/^/v2//")]],
     extract |-> [from |-> "path_regex", pattern |-> S("/L0/(.+)")],
     post_extract |-> <<[str |-> "url_decode"]>>]
D_pre ==
    [name |-> "pre", filter |-> Host("h.x"),
     pre_extract |-> <<[str |-> "url_decode"]>>,
     extract |-> QueryParam(<<S("u")>>)]
D_url ==
    [name |-> "url",
     filter |-> [hostname |-> [list |-> <<S("g.x"), S("h.x")>>],
                 path |-> [list |-> <<S("/v3"), S("//v2//")>>]],
     pre_extract |-> <<[str |-> "html_unescape"]>>,
     extract |-> [from |-> "url_regex", pattern |-> S("__(.+?)__;")],
     post_extract |-> <<[str |-> "url_decode"],
                        [key |-> "prepend", param |-> Val(S("http://"))]>>]
D_proofpoint_v2 ==
    [name |-> "proofpoint_v2", filter |-> Host("/.*\\.proofpoint\\.com/"),
     extract |-> QueryParam(<<S("u")>>),
     post_extract |-> <<[str |-> "proofpoint_v2_decode"]>>]

GoodDefs == {D_b64, D_last, D_first, D_path, D_pre, D_url, D_proofpoint_v2}

\* definitions that construction has to refuse
B_noname == [D_first EXCEPT !.name = ""]
B_dup == [D_first EXCEPT !.name = "b64"]
B_transform == [D_b64 EXCEPT !.post_extract = <<[str |-> "rot13"]>>]
B_regex == [D_b64 EXCEPT !.filter = Host("/(/")]
B_value == [D_b64 EXCEPT !.post_extract = <<[str |-> "prepend"]>>]
B_extract ==
    [D_b64 EXCEPT !.extract = [from |-> "query_param", keys |-> <<S("u")>>,
                               pattern |-> S("/L0/(.+)")]]
B_group == [D_path EXCEPT !.extract = [from |-> "path_regex", pattern |-> S("/v2/")]]
B_nofilter == [name |-> "nofilter", extract |-> QueryParam(<<S("u")>>)]

BadDefs == {B_noname, B_transform, B_regex, B_value, B_extract, B_group, B_nofilter}

AllDefs == GoodDefs \cup BadDefs \cup {B_dup}

\* the lists of at most n definitions drawn from defs
RECURSIVE ListsOf(_, _)
ListsOf(defs, n) ==
    IF n = 0 THEN {<<>>}
    ELSE LET shorter == ListsOf(defs, n - 1)
         IN shorter \cup {Append(l, d) : l \in shorter, d \in defs}

URLs ==
    {S("https://h.x/?u=a"),
     S("https://h.x/?u=/w=="),
     S("https://h.x/?u=YQ%3D%3D&t=c&u=Yg"),
     S("https://h.x/?x=1"),
     S("https://h.x/?u=/v2/L0/b"),
     S("https://h.x/?t=b&t=c#u=a"),
     S("https://H.X:8/?t=x%26u%3Dy"),
     S("https://h.x/v2/L0/a%3Ab?t=1"),
     S("https://h.x/v2/?u=__a-2Db__;"),
     S("https://g.x/v2/__a.b&amp;c__;!d$"),
     S("//g.x/v3;p?u=Yg"),
     S("https://h.x.y/?u=a"),
     S("http://example.com"),
     S("http://["),
     S("https://urldefense.proofpoint.com/v2/url?u=http-3A__example.com&d=foo")}

\* the texts given to a Transform on its own
Texts ==
    {S(""), S("http-3A__example.com"), S("-5F"), S("-2D3A"), S("-2d-3a_"),
     S("a-b_c"), S("-3"), S("--3A"), S("-3G-3a"), S("_-_"), S("-2D2D3A"),
     S("a"), S("YQ=="), S("YQ"), S("/w=="), S("aHR0cDovL2IueQ=="),
     S("a%3Ab"), S("%zz%41"), S("%C3"), S("a&amp;b&lt"), S("&amp;amp;"),
     S("x-5Fy%5F&quot;")}

Transforms ==
    {TransformFromDict([str |-> n]).value :
        n \in VALID_TRANSFORM_NAMES \ PARAMETERIZED_TRANSFORMS}
    \cup {TransformFromDict([key |-> "prepend", param |-> Val(S("http://"))]).value}

\* the Extractors called on their own: every order of the keys u, t, z and
\* both selections, and the two regex sources
KeyLists ==
    {<<S("u")>>, <<S("t")>>, <<S("u"), S("t")>>, <<S("t"), S("u")>>,
     <<S("z"), S("u")>>, <<S("x"), S("t"), S("u")>>}

Extracts ==
    {ExtractFromDict([from |-> "query_param", keys |-> k, select |-> s]).value :
        k \in KeyLists, s \in ParamSelects}
    \cup {ExtractFromDict(d.extract).value : d \in GoodDefs}

Filters == {FilterFromDict(d.filter).value : d \in GoodDefs}

Rules == {RuleFromDict(d).value : d \in GoodDefs}

(***************************************************************************)
(* The state: the definition data last given to RuleSet.from_dict and the  *)
(* RuleSet it built (or the exception), and the last call made: the        *)
(* operation, the object it was made on, its URL or text, and its result   *)
(* with the components it ran.                                             *)
(***************************************************************************)
VARIABLES data, rule_set, op, arg, url, outcome

vars == <<data, rule_set, op, arg, url, outcome>>

NoCall == [res |-> None, log |-> <<>>]

Init ==
    /\ data = <<>>
    /\ rule_set = None
    /\ op = "init"
    /\ arg = <<>>
    /\ url = <<>>
    /\ outcome = NoCall

\* Each behaviour makes one construction and then one call, or one call on
\* a component built on its own: no operation changes the object it is
\* called on, so a further call would start from the same state.

\* RuleSet.from_dict({"rules": defs})
FromDict ==
    \E defs \in ListsOf(AllDefs, MaxRules) :
        /\ op = "init"
        /\ data' = defs
        /\ rule_set' = RuleSetFromDict([rules |-> defs])
        /\ op' = "from_dict"
        /\ UNCHANGED <<arg, url, outcome>>

\* unsafe_link(u, rule_set=rule_set)
UnsafeLinkCall ==
    \E u \in URLs :
        /\ op = "from_dict"
        /\ rule_set.kind = "value"
        /\ op' = "unsafe_link"
        /\ url' = u
        /\ outcome' = UnsafeLink(u, rule_set.value)
        /\ UNCHANGED <<data, rule_set, arg>>

\* is_protected_link(u, rule_set=rule_set)
IsProtectedLinkCall ==
    \E u \in URLs :
        /\ op = "from_dict"
        /\ rule_set.kind = "value"
        /\ op' = "is_protected_link"
        /\ url' = u
        /\ outcome' = IsProtectedLink(u, rule_set.value)
        /\ UNCHANGED <<data, rule_set, arg>>

\* rule.call(u) and rule.call(u, parsed=urlparse(u)) on one Rule
RuleCallStep ==
    \E r \in Rules, u \in URLs, with_parsed \in BOOLEAN :
        /\ op = "init"
        /\ with_parsed => Urlparse(u).kind = "value"
        /\ op' = IF with_parsed THEN "rule_call_parsed" ELSE "rule_call"
        /\ arg' = r
        /\ url' = u
        /\ outcome' = RuleCall(r, u, IF with_parsed THEN Urlparse(u) ELSE None)
        /\ UNCHANGED <<data, rule_set>>

\* extract.call(u) on one Extract
ExtractCallStep ==
    \E e \in Extracts, u \in URLs :
        /\ op = "init"
        /\ op' = "extract_call"
        /\ arg' = e
        /\ url' = u
        /\ outcome' = [res |-> ExtractCall(e, u, None), log |-> <<>>]
        /\ UNCHANGED <<data, rule_set>>

\* transform.call(s) on one Transform
TransformCallStep ==
    \E t \in Transforms, s \in Texts :
        /\ op = "init"
        /\ op' = "transform_call"
        /\ arg' = t
        /\ url' = s
        /\ outcome' = [res |-> TransformCall(t, s), log |-> <<>>]
        /\ UNCHANGED <<data, rule_set>>

\* filter.matches(u) on one Filter
FilterMatchesStep ==
    \E f \in Filters, u \in URLs :
        /\ op = "init"
        /\ op' = "filter_matches"
        /\ arg' = f
        /\ url' = u
        /\ outcome' = [res |-> FilterMatches(f, u, None), log |-> <<>>]
        /\ UNCHANGED <<data, rule_set>>

Next ==
    \/ FromDict
    \/ UnsafeLinkCall
    \/ IsProtectedLinkCall
    \/ RuleCallStep
    \/ ExtractCallStep
    \/ TransformCallStep
    \/ FilterMatchesStep

Spec == Init /\ [][Next]_vars

(***************************************************************************)
(* Properties                                                              *)
(***************************************************************************)
\* a Boolean result is True, is False
IsTrue(r) == r.kind = "value" /\ r.value = TRUE
IsFalse(r) == r.kind = "value" /\ r.value = FALSE

Built == rule_set.kind = "value"

\* what rule i of the constructed RuleSet does with the URL of the call
Yields(i) == RuleCall(rule_set.value[i], url, None).res

\* the Filter of rule i returns true on the URL of the call
Matched(i) == IsTrue(FilterMatches(rule_set.value[i].filter, url, None))

RuleIndices == 1..Len(rule_set.value)

DecodeErrors == {"binascii.Error", "UnicodeDecodeError"}

\* C1: in a RuleSet [r1, r2] where r1's Filter matches the URL, a Transform
\* of r1 fails to decode and r2 alone returns v, RuleSet.evaluate returns v
\* and does not raise.
C1_DecodeFailureFallsThrough ==
    (/\ op = "unsafe_link"
     /\ Len(rule_set.value) = 2
     /\ Matched(1)
     /\ Yields(1).kind = "raise" /\ Yields(1).exc \in DecodeErrors
     /\ UnsafeLink(url, <<rule_set.value[2]>>).res.kind = "value")
    => outcome.res = UnsafeLink(url, <<rule_set.value[2]>>).res

\* C2: RuleSet.evaluate returns the result of the first Rule in list order
\* whose evaluation yields a value, and returns nothing exactly when every
\* Rule yields nothing.
C2_FirstValueWins ==
    op = "unsafe_link" =>
        LET valued == {i \in RuleIndices : Yields(i).kind = "value"}
            first == CHOOSE i \in valued : \A j \in valued : i <= j
        IN /\ valued # {} => outcome.res = Yields(first)
           /\ outcome.res.kind = "none"
                <=> \A i \in RuleIndices : Yields(i).kind = "none"

\* C3 as stated: whenever the Filters of two Rules of the RuleSet both match
\* the URL, RuleSet.evaluate equals the result of the earlier of the two.
C3_EarlierOfTwoMatching ==
    op = "unsafe_link" =>
        \A i, j \in RuleIndices :
            (i < j /\ Matched(i) /\ Matched(j)) => outcome.res = Yields(i)

\* C3 amended: when the first Rule in list order whose Filter matches the
\* URL yields a value, RuleSet.evaluate returns that value, whatever a later
\* Rule would extract.
C3_FirstMatchingValueWins ==
    op = "unsafe_link" =>
        LET matching == {i \in RuleIndices : Matched(i)}
            first == CHOOSE i \in matching : \A j \in matching : i <= j
        IN (matching # {} /\ Yields(first).kind = "value")
               => outcome.res = Yields(first)

\* two Rules match and would return different values; the earlier one won
C3_Witness ==
    /\ op = "unsafe_link"
    /\ Len(rule_set.value) = 2
    /\ Matched(1) /\ Matched(2)
    /\ Yields(1).kind = "value" /\ Yields(2).kind = "value"
    /\ Yields(1) # Yields(2)
    /\ outcome.res = Yields(1)

\* C4: whenever evaluate returns a value contains_match is true;
\* contains_match is true exactly when the Filter of some Rule matches, and
\* it runs Filters only.
C4_ContainsMatchWeaker ==
    /\ (op = "unsafe_link" /\ outcome.res.kind = "value")
          => IsTrue(IsProtectedLink(url, rule_set.value).res)
    /\ op = "is_protected_link" =>
          /\ IsTrue(outcome.res) <=> \E i \in RuleIndices : Matched(i)
          /\ \A k \in 1..Len(outcome.log) : outcome.log[k].ev = "filter"

\* contains_match is true where evaluation yields nothing
C4_Witness ==
    /\ op = "is_protected_link"
    /\ IsTrue(outcome.res)
    /\ UnsafeLink(url, rule_set.value).res = None

\* C5: a Rule returns a value only if its Filter matches, a Rule whose
\* Filter does not match runs neither Transform nor Extractor, and
\* RuleSet.evaluate on a URL that no Filter matches returns nothing and does
\* not raise.
C5_NoMatchNoResult ==
    /\ op \in {"rule_call", "rule_call_parsed"} =>
          /\ outcome.res.kind = "value"
                => IsTrue(FilterMatches(arg.filter, url, None))
          /\ IsFalse(FilterMatches(arg.filter, url, None))
                => \A k \in 1..Len(outcome.log) : outcome.log[k].ev = "filter"
    /\ (op = "unsafe_link" /\ ~\E i \in RuleIndices : Matched(i))
          => outcome.res = None

\* C6: the answer of Filter.matches is that of the formula over the parsed
\* hostname and path, and is the same for any URL with that hostname and
\* that path, whatever its query and fragment.
C6_FilterHostPathOnly ==
    (op = "filter_matches" /\ outcome.res.kind = "value") =>
        LET p == Urlparse(url).value
        IN /\ outcome.res.value =
                (/\ \E i \in 1..Len(arg.hostname) :
                       MatcherMatches(arg.hostname[i], Hostname(p))
                 /\ \/ arg.path = <<>>
                    \/ \E i \in 1..Len(arg.path) :
                          MatcherMatches(arg.path[i], p.path))
           /\ \A u2 \in URLs :
                 (/\ Urlparse(u2).kind = "value"
                  /\ Hostname(Urlparse(u2).value) = Hostname(p)
                  /\ Urlparse(u2).value.path = p.path)
                 => FilterMatches(arg, u2, None) = outcome.res

\* a Filter with path Matchers answered on a URL that shares hostname and
\* path with a URL of another query
C6_Witness ==
    /\ op = "filter_matches"
    /\ arg.path # <<>>
    /\ outcome.res.kind = "value"
    /\ \E u2 \in URLs :
          /\ Urlparse(u2).kind = "value"
          /\ Hostname(Urlparse(u2).value) = Hostname(Urlparse(url).value)
          /\ Urlparse(u2).value.path = Urlparse(url).value.path
          /\ Urlparse(u2).value.query # Urlparse(url).value.query

\* C7: construction either fails or yields one Rule per definition in the
\* same order; it fails on an empty list, an empty name, a repeated name and
\* on any definition that cannot be built, so a RuleSet never holds two
\* Rules of one name.
C7_ConstructionAllOrNothing ==
    op = "from_dict" =>
        LET n == Len(data)
            named(i) == "name" \in DOMAIN data[i]
        IN /\ rule_set.kind \in {"value", "raise"}
           /\ rule_set.kind = "value" =>
                 /\ Len(rule_set.value) = n
                 /\ \A i \in 1..n : rule_set.value[i] = RuleFromDict(data[i]).value
                 /\ \A i \in 1..n : rule_set.value[i].name = data[i].name
                 /\ \A i, j \in 1..n :
                       i # j => rule_set.value[i].name # rule_set.value[j].name
           /\ (\/ n = 0
               \/ \E i \in 1..n : named(i) /\ data[i].name = ""
               \/ \E i, j \in 1..n :
                     i # j /\ named(i) /\ named(j) /\ data[i].name = data[j].name
               \/ \E i \in 1..n : RuleFromDict(data[i]).kind = "raise")
              => rule_set.kind = "raise"

\* two definitions that build on their own share a name, and are refused
C7_Witness ==
    /\ op = "from_dict"
    /\ Len(data) = 2
    /\ RuleFromDict(data[1]).kind = "value"
    /\ RuleFromDict(data[2]).kind = "value"
    /\ data[1].name = data[2].name
    /\ data[1] # data[2]
    /\ rule_set.kind = "raise"

\* C8: a query_param Extractor returns, for the first of its keys that has
\* a value in the parsed query, the first or the last of that key's values as
\* select says, and nothing when no key has a value.
C8_QueryParamSelection ==
    (op = "extract_call" /\ arg.source = "query_param"
     /\ Urlparse(url).kind = "value") =>
        LET query == Urlparse(url).value.query
            present == {k \in 1..Len(arg.keys) : QsGet(query, arg.keys[k]) # <<>>}
            k == CHOOSE a \in present : \A b \in present : a <= b
            values == QsGet(query, arg.keys[k])
        IN /\ present = {} => outcome.res = None
           /\ present # {} =>
                 outcome.res = Val(IF arg.select = "first" THEN values[1]
                                   ELSE values[Len(values)])
           /\ (/\ arg.keys = <<S("u")>>
               /\ arg.select = "last"
               /\ url = S("https://h.x/?u=YQ%3D%3D&t=c&u=Yg"))
              => outcome.res = Val(S("Yg"))

\* select=last on a key that occurs twice, with a later key present as well
C8_Witness ==
    /\ op = "extract_call"
    /\ arg.source = "query_param"
    /\ arg.select = "last"
    /\ arg.keys = <<S("u"), S("t")>>
    /\ url = S("https://h.x/?u=YQ%3D%3D&t=c&u=Yg")
    /\ outcome.res = Val(S("Yg"))

\* C9, the decoding said position by position: a hyphen followed by two
\* hexadecimal digits becomes the character of that code, the two digits
\* are dropped, any other character is kept, and every underscore of the
\* result, decoded or not, is a "/".
IsHyphenHex(s, i) ==
    i >= 1 /\ i + 2 <= Len(s) /\ s[i] = "-" /\ HexVal(s[i + 1]) >= 0
    /\ HexVal(s[i + 2]) >= 0

Slashed(c) == IF c = "_" THEN "/" ELSE c

ProofpointExpected(s) ==
    Concat([i \in 1..Len(s) |->
              IF IsHyphenHex(s, i)
              THEN <<Slashed(Chr(16 * HexVal(s[i + 1]) + HexVal(s[i + 2])))>>
              ELSE IF IsHyphenHex(s, i - 1) \/ IsHyphenHex(s, i - 2) THEN <<>>
              ELSE <<Slashed(s[i])>>], 1, Len(s))

LongProofpointURL ==
    S("https://urldefense.proofpoint.com/v2/url?u=http-3A__example.com&d=foo")

\* C9: proofpoint_v2_decode is that decoding; it takes http-3A__example.com
\* to http://example.com, and the one-Rule RuleSet of the proofpoint scheme
\* returns http://example.com on the wrapped URL.
C9_ProofpointV2Decode ==
    /\ (op = "transform_call" /\ arg.name = "proofpoint_v2_decode") =>
          /\ outcome.res = Val(ProofpointExpected(url))
          /\ url = S("http-3A__example.com")
                => outcome.res = Val(S("http://example.com"))
          /\ url = S("-5F") => outcome.res = Val(S("/"))
          /\ url = S("-2D3A") => outcome.res = Val(S("-3A"))
    /\ (op = "unsafe_link" /\ data = <<D_proofpoint_v2>> /\ url = LongProofpointURL)
          => outcome.res = Val(S("http://example.com"))

\* an escaped underscore was decoded and became a slash
C9_Witness ==
    /\ op = "transform_call"
    /\ arg.name = "proofpoint_v2_decode"
    /\ url = S("-5F")
    /\ outcome.res = Val(S("/"))

\* C10, the pipeline said step by step, the Extractor always parsing the
\* text it is given
RECURSIVE Chain(_, _, _)
Chain(ts, k, value) ==
    IF k > Len(ts) THEN Val(value)
    ELSE LET r == TransformCall(ts[k], value)
         IN IF r.kind = "raise" THEN r ELSE Chain(ts, k + 1, r.value)

Pipeline(rule, u) ==
    LET rewritten == Chain(rule.pre_extract, 1, u)
        extracted == ExtractCall(rule.extract, rewritten.value, None)
    IN IF ~IsTrue(FilterMatches(rule.filter, u, None))
       THEN FilterMatches(rule.filter, u, None)
       ELSE IF rewritten.kind = "raise" THEN rewritten
       ELSE IF extracted.kind # "value" THEN extracted
       ELSE Chain(rule.post_extract, 1, extracted.value)

\* the components a completed evaluation runs, in order
PipelineLog(rule) ==
    <<Event("filter", rule.name)>>
    \o [k \in 1..Len(rule.pre_extract) |-> Event("transform", rule.pre_extract[k].name)]
    \o <<Event("extract", rule.extract.source)>>
    \o [k \in 1..Len(rule.post_extract) |-> Event("transform", rule.post_extract[k].name)]

\* C10: Rule.evaluate is that pipeline whether or not the caller hands it
\* the parsed form of the URL, so both calls give the same result; a call
\* that returns a value ran Filter, pre-extraction Transforms, Extractor and
\* post-extraction Transforms in that order.
C10_PipelineAndStaleParse ==
    op \in {"rule_call", "rule_call_parsed"} =>
        /\ FilterMatches(arg.filter, url, None).kind = "value"
              => outcome.res = (IF FilterMatches(arg.filter, url, None).value
                                THEN Pipeline(arg, url) ELSE None)
        /\ op = "rule_call_parsed" => outcome = RuleCall(arg, url, None)
        /\ outcome.res.kind = "value" => outcome.log = PipelineLog(arg)
        /\ outcome.res.kind = "none" =>
              \A k \in 1..Len(outcome.log) :
                 outcome.log[k].ev = "transform" => k <= 1 + Len(arg.pre_extract)

\* a value extracted from the rewritten URL that the caller's parsed form
\* of the original URL does not hold
C10_Witness ==
    /\ op = "rule_call_parsed"
    /\ arg.pre_extract # <<>>
    /\ outcome.res.kind = "value"
    /\ ExtractCall(arg.extract, url, Urlparse(url)) # outcome.res

====
